---- MODULE Spec2Model ----
(***************************************************************************)
(* Model of the source-control tools of the Azure DevOps MCP server        *)
(* (tools/repos.ts: create_branch, create_file, create_feature_switch,     *)
(* update_feature_switch) run against a remote Git service.                *)
(*                                                                         *)
(* Strings that the code takes apart or concatenates (branch names,        *)
(* feature names, paths) are sequences of tokens; JSON object keys and     *)
(* stage names are plain strings.                                          *)
(***************************************************************************)
EXTENDS Integers, Sequences, FiniteSets, TLC

(***************************************************************************)
(* Bounds of the model.                                                    *)
(***************************************************************************)
\* Number of commits the remote repository may hold in one behaviour.
MaxCommits == 4

\* The other clients of the repository; each pushes at most one commit.
ExternalWriters == {"ext"}

\* The concurrently running tool invocations.
Procs == {"p1", "p2"}

(***************************************************************************)
(* JavaScript values, as JSON.parse produces them.  An object is an        *)
(* ordered list of <<key, value>> members with distinct keys.              *)
(***************************************************************************)
Undefined == [t |-> "undefined"]
JNull == [t |-> "null"]
JStr(s) == [t |-> "str", s |-> s]
JBool(b) == [t |-> "bool", b |-> b]
JArr(e) == [t |-> "arr", e |-> e]
JObj(m) == [t |-> "obj", m |-> m]

\* Object.keys(o): the own enumerable keys, in insertion order.
ObjectKeys(o) ==
  IF o.t = "obj" THEN [i \in 1..Len(o.m) |-> o.m[i][1]] ELSE <<>>

\* o.hasOwnProperty(k)
HasOwnProperty(o, k) ==
  o.t = "obj" /\ \E i \in 1..Len(o.m) : o.m[i][1] = k

\* o[k]: the member's value, undefined when there is none.
GetProp(o, k) ==
  IF HasOwnProperty(o, k)
  THEN o.m[CHOOSE i \in 1..Len(o.m) : o.m[i][1] = k][2]
  ELSE Undefined

\* o[k] = v: an existing key keeps its position, a new key is appended.
SetProp(o, k, v) ==
  IF HasOwnProperty(o, k)
  THEN JObj([i \in 1..Len(o.m) |-> IF o.m[i][1] = k THEN <<k, v>> ELSE o.m[i]])
  ELSE JObj(Append(o.m, <<k, v>>))

\* !v
Falsy(v) ==
  \/ v.t \in {"undefined", "null"}
  \/ v.t = "bool" /\ ~v.b
  \/ v.t = "str" /\ v.s = <<>>

(***************************************************************************)
(* File content.  A JSON text is abstracted to its indentation and its     *)
(* syntax tree, whose objects may repeat a key; "empty" is the zero-length *)
(* text, "garbage" a text that is no JSON, "undefined" no text at all.     *)
(***************************************************************************)
JsonText(indent, v) == [kind |-> "json", indent |-> indent, v |-> v]
EmptyText == [kind |-> "empty", indent |-> 0, v |-> Undefined]
GarbageText == [kind |-> "garbage", indent |-> 0, v |-> Undefined]
NoText == [kind |-> "undefined", indent |-> 0, v |-> Undefined]

RECURSIVE ParseValue(_)
RECURSIVE ParseMembers(_, _)
\* Members of a JSON object text, left to right: a repeated key overwrites.
ParseMembers(ms, acc) ==
  IF ms = <<>> THEN acc
  ELSE ParseMembers(Tail(ms), SetProp(acc, Head(ms)[1], ParseValue(Head(ms)[2])))

ParseValue(v) ==
  CASE v.t = "obj" -> ParseMembers(v.m, JObj(<<>>))
    [] v.t = "arr" -> JArr([i \in 1..Len(v.e) |-> ParseValue(v.e[i])])
    [] OTHER -> v

\* JSON.parse(text) throws a SyntaxError unless the text is JSON.
JSONparseThrows(text) == text.kind # "json"

\* Mutant of JSONparse: decoding into a fixed struct of the known fields.
JSONparse_fixedStruct(text) ==
  LET d == ParseValue(text.v)
      Known(m) == m[1] \in {"Id", "Description", "Environments"}
  IN  IF d.t = "obj" THEN JObj(SelectSeq(d.m, Known)) ELSE d

JSONparse(text) == ParseValue(text.v)

RECURSIVE StringifyValue(_)
\* What JSON.stringify writes for a value: a member whose value is undefined
\* is left out, an undefined element of an array is written as null.
StringifyValue(v) ==
  CASE v.t = "obj" ->
         LET Defined(m) == m[2].t # "undefined"
             kept == SelectSeq(v.m, Defined)
         IN  JObj([i \in 1..Len(kept) |-> <<kept[i][1], StringifyValue(kept[i][2])>>])
    [] v.t = "arr" ->
         JArr([i \in 1..Len(v.e) |->
                 IF v.e[i].t = "undefined" THEN JNull ELSE StringifyValue(v.e[i])])
    [] OTHER -> v

\* JSON.stringify(value, null, 2); undefined for the value undefined.
JSONstringify(value) ==
  IF value.t = "undefined" THEN NoText ELSE JsonText(2, StringifyValue(value))

(***************************************************************************)
(* Names.                                                                  *)
(***************************************************************************)
UpperChars == <<"A", "B", "C", "D", "E", "F", "G", "H", "I", "J", "K", "L", "M",
                "N", "O", "P", "Q", "R", "S", "T", "U", "V", "W", "X", "Y", "Z">>
LowerChars == <<"a", "b", "c", "d", "e", "f", "g", "h", "i", "j", "k", "l", "m",
                "n", "o", "p", "q", "r", "s", "t", "u", "v", "w", "x", "y", "z">>
DigitChars == <<"0", "1", "2", "3", "4", "5", "6", "7", "8", "9">>

Range(f) == {f[i] : i \in DOMAIN f}

\* String.prototype.toLowerCase, one character
ToLowerCase(c) ==
  IF c \in Range(UpperChars)
  THEN LowerChars[CHOOSE i \in DOMAIN UpperChars : UpperChars[i] = c]
  ELSE c

\* featureName.toLowerCase().replace(/[^a-z0-9]/g, '-')
Sanitize(name) ==
  [i \in 1..Len(name) |->
     IF ToLowerCase(name[i]) \in Range(LowerChars) \cup Range(DigitChars)
     THEN ToLowerCase(name[i]) ELSE "-"]

\* branchName || `feature/${...}`: the empty string counts as not provided.
finalBranchName(branchName, featureName) ==
  IF branchName # <<>> THEN branchName ELSE <<"feature/">> \o Sanitize(featureName)

\* `Features/Configuration/Features/${featureName}.json`
filePath(featureName) ==
  <<"Features/Configuration/Features/">> \o featureName \o <<".json">>

StartsWith(name, prefix) ==
  Len(prefix) <= Len(name) /\ SubSeq(name, 1, Len(prefix)) = prefix

(***************************************************************************)
(* The feature switch document.                                            *)
(***************************************************************************)
StageNames == <<"onebox", "test", "cst", "dxt", "msit", "prod",
                "mc", "gcc", "gcchigh", "dod", "usnat", "ussec">>

\* The document create_feature_switch writes.
featureConfig(featureName, description) ==
  JObj(<< <<"Id", JStr(featureName)>>,
          <<"Description", JStr(description)>>,
          <<"Environments",
            JObj([i \in 1..Len(StageNames) |-> <<StageNames[i], JObj(<<>>)>>])>> >>)

Requirement(pivot, values) ==
  JObj(<< <<"Name", JStr(<<"PowerBI.MemberOf">>)>>,
          <<"Parameters",
            JObj(<< <<"Pivot", JStr(<<pivot>>)>>,
                    <<"Values", JArr([i \in 1..Len(values) |-> JStr(values[i])])>> >>)>> >>)

\* The operator the update_feature_switch prompt derives from isMember:
\* isMember === 'false' ? 'NotMemberOf' : 'MemberOf'
memberOperator(isMember) == IF isMember = "false" THEN "NotMemberOf" ELSE "MemberOf"

\* Mutant of hasRequirements: every request is taken for a membership update.
hasRequirements_always(tenantIds, rolloutName) == TRUE

\* rolloutName || (tenantIds && tenantIds.length > 0)
hasRequirements(tenantIds, rolloutName) ==
  rolloutName # <<>> \/ Len(tenantIds) > 0

\* Mutant of StageConfig: the tenant requirement comes first.
StageConfig_tenantFirst(tenantIds, rolloutName, enabled) ==
  IF ~hasRequirements(tenantIds, rolloutName)
  THEN JObj(<< <<"Enabled", JBool(enabled)>> >>)
  ELSE JObj(<< <<"Requires",
                 JArr((IF Len(tenantIds) > 0
                       THEN <<Requirement("TenantObjectId", tenantIds)>>
                       ELSE <<>>)
                      \o
                      (IF rolloutName # <<>>
                       THEN <<Requirement("RolloutName", <<rolloutName>>)>>
                       ELSE <<>>))>> >>)

\* The value update_feature_switch assigns to Environments[stage].
StageConfig(tenantIds, rolloutName, enabled) ==
  IF ~hasRequirements(tenantIds, rolloutName)
  THEN JObj(<< <<"Enabled", JBool(enabled)>> >>)
  ELSE JObj(<< <<"Requires",
                 JArr((IF rolloutName # <<>>
                       THEN <<Requirement("RolloutName", <<rolloutName>>)>>
                       ELSE <<>>)
                      \o
                      (IF Len(tenantIds) > 0
                       THEN <<Requirement("TenantObjectId", tenantIds)>>
                       ELSE <<>>))>> >>)

\* Mutant of SetStage: the members of config are merged into the value the
\* stage has.
SetStage_merge(currentConfig, stage, config) ==
  LET Environments == GetProp(currentConfig, "Environments")
  IN  SetProp(currentConfig, "Environments",
              SetProp(Environments, stage,
                      ParseMembers(config.m, GetProp(Environments, stage))))

\* currentConfig.Environments[stage] = config
SetStage(currentConfig, stage, config) ==
  SetProp(currentConfig, "Environments",
          SetProp(GetProp(currentConfig, "Environments"), stage, config))

(***************************************************************************)
(* Errors: the text of a message, the names and the keys it interpolates.  *)
(***************************************************************************)
Err(msg, names, keys) == [prefix |-> "", msg |-> msg, names |-> names, keys |-> keys]
NoError == Err("", <<>>, <<>>)

(***************************************************************************)
(* The remote repository.  Branch names stand for refs/heads/<name>; a     *)
(* commit id is the commit's index in the store.                           *)
(***************************************************************************)
\* "0".repeat(40)
NULL_OBJECT_ID == 0

\* The branch names of the model, in the name order in which the service
\* lists refs.
AllBranches == << <<"feature/", "f">>, <<"feature/", "f", "-", "1">>, <<"master">> >>
BranchNames == Range(AllBranches)

FeatureNames == { <<"F", "_", "1">> }
Paths == { filePath(fn) : fn \in FeatureNames }

\* The organization the fallback URL names, and the organizations the
\* server may be started for.
FallbackOrg == "powerbi"
OrgNames == {"powerbi", "contoso"}

AbsentText == [kind |-> "absent", indent |-> 0, v |-> Undefined]

\* A document another client wrote: a field this system does not know
\* (Owner), four-space indentation, a stage in each form, a repeated key.
ForeignDoc(owner) ==
  JsonText(4,
    JObj(<< <<"Id", JStr(<<"F", "_", "1">>)>>,
            <<"Owner", JStr(owner)>>,
            <<"Description", JStr(<<"old">>)>>,
            <<"Environments",
              JObj(<< <<"onebox", JObj(<<>>)>>,
                      <<"test", JObj(<< <<"Requires",
                           JArr(<<Requirement("RolloutName", << <<"weekly">> >>)>>)>> >>)>>,
                      <<"prod", JObj(<< <<"Enabled", JBool(TRUE)>> >>)>>,
                      <<"onebox", JObj(<< <<"Enabled", JBool(FALSE)>> >>)>> >>)>>,
            <<"Description", JStr(<<"desc">>)>> >>))

\* A JSON document without an Environments member.
NoEnvironmentsDoc ==
  JsonText(2, JObj(<< <<"Id", JStr(<<"F", "_", "1">>)>>, <<"Description", JStr(<<"desc">>)>> >>))

\* A JSON document whose Environments member is an empty array.
ArrayEnvironmentsDoc ==
  JsonText(2, JObj(<< <<"Id", JStr(<<"F", "_", "1">>)>>,
                      <<"Description", JStr(<<"desc">>)>>,
                      <<"Environments", JArr(<<>>)>> >>))

\* Contents the feature file may have before the tools run.
InitialContents ==
  {ForeignDoc(<<"team-a">>), NoEnvironmentsDoc, ArrayEnvironmentsDoc, GarbageText, EmptyText}

\* <<organization, content of the feature file>> of the initial states in
\* which the feature branch exists.
InitialRepos ==
  ({FallbackOrg} \X InitialContents) \cup {<<"contoso", ForeignDoc(<<"team-a">>)>>}

\* Contents other clients push.
ExternalContents == {ForeignDoc(<<"team-b">>)}

NoFiles == [path \in Paths |-> AbsentText]

VARIABLES
  orgName,   \* args[0] of the server process
  refs,      \* branch name -> commit id of its tip, NULL_OBJECT_ID when absent
  commits,   \* the commit store: parent, files and who pushed it
  inv        \* the tool invocations

vars == <<orgName, refs, commits, inv>>

(***************************************************************************)
(* The Git client API, as the tools use it.                                *)
(***************************************************************************)
\* gitApi.getRefs(repositoryId, undefined, `heads/${filter}`): the refs
\* whose name starts with the filter, in name order.
getRefs(filter) ==
  LET Match(b) == refs[b] # NULL_OBJECT_ID /\ StartsWith(b, filter)
      found == SelectSeq(AllBranches, Match)
  IN  [i \in 1..Len(found) |-> [name |-> found[i], objectId |-> refs[found[i]]]]

\* The service applies a ref update only if the ref is at oldObjectId.
RefUpdateApplies(name, oldObjectId) == refs[name] = oldObjectId

\* The service applies a push only if the ref is at oldObjectId and the
\* change fits the tree of that commit: Add a new path, Edit an existing one.
PushApplies(name, oldObjectId, changeType, path) ==
  /\ oldObjectId # NULL_OBJECT_ID
  /\ refs[name] = oldObjectId
  /\ changeType = "Add" => commits[oldObjectId].files[path] = AbsentText
  /\ changeType = "Edit" => commits[oldObjectId].files[path] # AbsentText

\* The commit a push creates on top of oldObjectId.
NewCommit(oldObjectId, path, content, by) ==
  [parent |-> oldObjectId,
   files |-> [commits[oldObjectId].files EXCEPT ![path] = content],
   by |-> by]

\* The file at the tip of a branch, as the service's item API serves it.
ItemAtBranch(branch, path) ==
  IF refs[branch] = NULL_OBJECT_ID THEN AbsentText ELSE commits[refs[branch]].files[path]

(***************************************************************************)
(* Tool invocations.                                                       *)
(***************************************************************************)
NoArgs ==
  [branchName |-> <<>>, sourceBranch |-> <<>>, featureName |-> <<>>,
   description |-> <<>>, filePath |-> <<>>, fileContent |-> NoText,
   stage |-> "", tenantIds |-> <<>>, rolloutName |-> <<>>, enabled |-> TRUE,
   isMember |-> "",   \* asked for through the prompt; no parameter of the tool
   pullRequestId |-> 0, status |-> ""]

\* The arguments a failure payload repeats.
NoParams == [branchName |-> <<>>, featureName |-> <<>>, stage |-> "", tenantIds |-> <<>>]
ParamsOf(args) ==
  [branchName |-> args.branchName, featureName |-> args.featureName,
   stage |-> args.stage, tenantIds |-> args.tenantIds]

\* GitRefUpdateResult, as far as the tools could look at it.
NoRefUpdate == [success |-> FALSE, updateStatus |-> "none"]

NoPush ==
  [name |-> <<>>, oldObjectId |-> 0, changeType |-> "", path |-> <<>>, content |-> NoText]

\* What the handler hands to its caller: a returned payload or a thrown error.
NoResult ==
  [status |-> "none", success |-> FALSE, error |-> NoError, params |-> NoParams,
   commitId |-> 0, updatedConfig |-> Undefined, refUpdate |-> NoRefUpdate]
Thrown(e) == [NoResult EXCEPT !.status = "thrown", !.error = e]
ReturnedFailure(e, args) ==
  [NoResult EXCEPT !.status = "returned", !.error = e, !.params = ParamsOf(args)]
ReturnedSuccess(commitId, updatedConfig, refUpdate) ==
  [NoResult EXCEPT !.status = "returned", !.success = TRUE, !.commitId = commitId,
                   !.updatedConfig = updatedConfig, !.refUpdate = refUpdate]

Idle ==
  [pc |-> "idle", tool |-> "none", args |-> NoArgs,
   sourceCommit |-> 0, branchCommit |-> 0, latestCommitId |-> 0,
   fileContent |-> NoText, error |-> NoError,
   contentStream |-> NoText, \* what the stream being read delivers
   told |-> NoArgs,       \* the tool arguments a prompt tells the agent to pass
   prUpdates |-> <<>>,    \* the pull request updates sent to the service
   currentConfig |-> Undefined, updatedContent |-> NoText,
   steps |-> <<>>,        \* the steps executed so far, in order
   pushes |-> <<>>,       \* the pushes submitted so far
   accepted |-> <<>>,     \* the commits the service created for them (0: rejected)
   targetExisted |-> FALSE, \* the ref to create was there when updateRefs ran
   branchCreated |-> FALSE,
   failedStep |-> "none",
   conflict |-> FALSE,    \* the push was rejected while the tip was not the one read
   result |-> NoResult]

\* Errors of the service and the transport, as the client library throws them.
RemoteUnavailable == Err("RemoteUnavailable", <<>>, <<>>)
RefUpdateRejected == Err("ref update rejected", <<>>, <<>>)
PushRejected == Err("push rejected", <<>>, <<>>)

\* <<branchName, sourceBranch>> of the create_branch requests.
CreateBranchPairs ==
  { << <<"feature/", "f", "-", "1">>, <<"master">> >>,
    << <<"feature/", "f">>, <<"master">> >>,
    << <<"master">>, <<"master">> >>,
    << <<"feature/", "f", "-", "1">>, <<"feature/", "f">> >> }

CreateBranchArgs ==
  { [NoArgs EXCEPT !.branchName = bs[1], !.sourceBranch = bs[2]] :
      bs \in CreateBranchPairs }

CreateFileArgs ==
  { [NoArgs EXCEPT !.branchName = b, !.filePath = f, !.fileContent = c] :
      b \in { <<"feature/", "f", "-", "1">>, <<"master">> }, f \in Paths,
      c \in { JSONstringify(featureConfig(<<"F", "_", "1">>, <<"desc">>)) } }
      \cup
  { [NoArgs EXCEPT !.branchName = <<"master">>, !.filePath = f, !.fileContent = EmptyText] :
      f \in Paths }

CreateFeatureSwitchArgs ==
  { [NoArgs EXCEPT !.featureName = fn, !.description = <<"desc">>,
                   !.sourceBranch = <<"master">>, !.branchName = b] :
      fn \in FeatureNames, b \in { <<>>, <<"master">> } }

\* <<branchName, stage, tenantIds, rolloutName, enabled, isMember>> of the
\* update requests.  isMember is "" for a request that says nothing about
\* membership.
UpdateRules ==
  { << <<"feature/", "f", "-", "1">>, "prod", <<>>, <<>>, TRUE, "" >>,
    << <<"feature/", "f", "-", "1">>, "prod", <<>>, <<>>, FALSE, "" >>,
    << <<"feature/", "f", "-", "1">>, "prod", << <<"t1">>, <<"t2">> >>, <<"daily">>, TRUE, "true" >>,
    << <<"feature/", "f", "-", "1">>, "prod", << <<"t1">> >>, <<>>, TRUE, "false" >>,
    << <<"feature/", "f", "-", "1">>, "prod", <<>>, <<>>, TRUE, "true" >>,
    << <<"feature/", "f", "-", "1">>, "test", <<>>, <<>>, FALSE, "" >>,
    << <<"feature/", "f", "-", "1">>, "test", <<>>, <<"daily">>, TRUE, "" >>,
    << <<"feature/", "f", "-", "1">>, "canary", <<>>, <<>>, TRUE, "" >>,
    << <<"master">>, "prod", <<>>, <<>>, TRUE, "" >> }

UpdateFeatureSwitchArgs ==
  { [NoArgs EXCEPT !.branchName = r[1], !.featureName = fn, !.stage = r[2],
                   !.tenantIds = r[3], !.rolloutName = r[4], !.enabled = r[5],
                   !.isMember = r[6]] :
      fn \in FeatureNames, r \in UpdateRules }

Requests ==
  ({"create_branch"} \X CreateBranchArgs)
    \cup ({"create_file"} \X CreateFileArgs)
    \cup ({"create_feature_switch"} \X CreateFeatureSwitchArgs)
    \cup ({"update_feature_switch"} \X UpdateFeatureSwitchArgs)

\* The requests of the second invocation: one of each tool, aimed at the
\* feature branch.
ConcurrentRequests ==
  { rq \in Requests :
      \/ rq[1] = "create_file" /\ rq[2].branchName = <<"feature/", "f", "-", "1">>
      \/ rq[1] = "create_feature_switch" /\ rq[2].branchName = <<>>
      \/ /\ rq[1] = "update_feature_switch"
         /\ rq[2].branchName = <<"feature/", "f", "-", "1">>
         /\ rq[2].stage = "test" /\ rq[2].rolloutName = <<"daily">> }

RequestsOf(p) == IF p = "p1" THEN Requests ELSE ConcurrentRequests

FirstPc(tool) ==
  CASE tool = "create_branch" -> "cb_getRefs"
    [] tool = "create_file" -> "cf_getRefs"
    [] tool = "create_feature_switch" -> "fs_getRefs"
    [] tool = "update_feature_switch" -> "uf_getBranch"

Done(p, fields, result) ==
  inv' = [inv EXCEPT ![p] = [fields EXCEPT !.pc = "done", !.result = result]]

\* The dispatcher calls a tool handler; the handler first obtains the
\* connection and the Git client, which may fail.
Start(p) ==
  /\ inv[p].pc = "idle"
  /\ \E rq \in RequestsOf(p), connected \in BOOLEAN :
       LET me == [inv[p] EXCEPT !.tool = rq[1], !.args = rq[2]]
       IN  IF connected
           THEN inv' = [inv EXCEPT ![p] = [me EXCEPT !.pc = FirstPc(rq[1])]]
           ELSE Done(p, me, Thrown(RemoteUnavailable))
  /\ UNCHANGED <<orgName, refs, commits>>

(***************************************************************************)
(* create_branch                                                           *)
(***************************************************************************)
\* getRefs of the source branch; the first ref returned is taken.
CB_getRefs(p) ==
  /\ inv[p].pc = "cb_getRefs"
  /\ \E ok \in BOOLEAN :
       LET me == [inv[p] EXCEPT !.steps = Append(@, "getRefs")]
           sourceRef == getRefs(me.args.sourceBranch)
       IN  IF ~ok THEN Done(p, me, Thrown(RemoteUnavailable))
           ELSE IF Len(sourceRef) = 0
           THEN Done(p, me, Thrown(Err("Source branch not found",
                                       <<me.args.sourceBranch>>, <<>>)))
           ELSE inv' = [inv EXCEPT ![p] =
                          [me EXCEPT !.sourceCommit = sourceRef[1].objectId,
                                     !.pc = "cb_updateRefs"]]
  /\ UNCHANGED <<orgName, refs, commits>>

\* updateRefs from NULL_OBJECT_ID to the source commit.  A rejected update
\* comes back as a result with success = false, or as an error of the
\* client; the handler does not look at the result.
CB_updateRefs(p) ==
  /\ inv[p].pc = "cb_updateRefs"
  /\ LET name == inv[p].args.branchName
         me == [inv[p] EXCEPT !.steps = Append(@, "updateRefs"),
                              !.targetExisted = refs[name] # NULL_OBJECT_ID]
     IN  \E outcome \in {"applied", "result", "throw", "unavailable"} :
           CASE outcome = "applied" ->
                  /\ RefUpdateApplies(name, NULL_OBJECT_ID)
                  /\ refs' = [refs EXCEPT ![name] = me.sourceCommit]
                  /\ Done(p, [me EXCEPT !.branchCreated = TRUE],
                          ReturnedSuccess(0, Undefined,
                            [success |-> TRUE, updateStatus |-> "succeeded"]))
             [] outcome = "result" ->
                  /\ ~RefUpdateApplies(name, NULL_OBJECT_ID)
                  /\ Done(p, me,
                          ReturnedSuccess(0, Undefined,
                            [success |-> FALSE, updateStatus |-> "staleOldObjectId"]))
                  /\ UNCHANGED refs
             [] outcome = "throw" ->
                  /\ ~RefUpdateApplies(name, NULL_OBJECT_ID)
                  /\ Done(p, me, Thrown(RefUpdateRejected))
                  /\ UNCHANGED refs
             [] outcome = "unavailable" ->
                  /\ Done(p, me, Thrown(RemoteUnavailable))
                  /\ UNCHANGED refs
  /\ UNCHANGED <<orgName, commits>>

(***************************************************************************)
(* create_file                                                             *)
(***************************************************************************)
CF_getRefs(p) ==
  /\ inv[p].pc = "cf_getRefs"
  /\ \E ok \in BOOLEAN :
       LET me == [inv[p] EXCEPT !.steps = Append(@, "getRefs")]
           branchRef == getRefs(me.args.branchName)
       IN  IF ~ok THEN Done(p, me, Thrown(RemoteUnavailable))
           ELSE IF Len(branchRef) = 0
           THEN Done(p, me, Thrown(Err("Branch not found", <<me.args.branchName>>, <<>>)))
           ELSE LET branchCommit == branchRef[1].objectId
                IN  inv' = [inv EXCEPT ![p] =
                       [me EXCEPT !.branchCommit = branchCommit,
                                  !.pushes = Append(@,
                                     [name |-> me.args.branchName,
                                      oldObjectId |-> branchCommit,
                                      changeType |-> "Add",
                                      path |-> me.args.filePath,
                                      content |-> me.args.fileContent]),
                                  !.pc = "cf_createPush"]]
  /\ UNCHANGED <<orgName, refs, commits>>

\* The service applies or rejects the push that was submitted last.
CF_createPush(p) ==
  /\ inv[p].pc = "cf_createPush"
  /\ LET me == [inv[p] EXCEPT !.steps = Append(@, "createPush")]
         push == me.pushes[Len(me.pushes)]
         applies == PushApplies(push.name, push.oldObjectId, push.changeType, push.path)
     IN  \E outcome \in {"applied", "rejected", "unavailable"} :
           CASE outcome = "applied" ->
                  /\ applies
                  /\ Len(commits) < MaxCommits
                  /\ commits' = Append(commits,
                        NewCommit(push.oldObjectId, push.path, push.content, p))
                  /\ refs' = [refs EXCEPT ![push.name] = Len(commits) + 1]
                  /\ Done(p, [me EXCEPT !.accepted = Append(@, Len(commits) + 1)],
                          ReturnedSuccess(Len(commits) + 1, Undefined, NoRefUpdate))
             [] outcome = "rejected" ->
                  /\ ~applies
                  /\ Done(p, [me EXCEPT !.accepted = Append(@, 0)], Thrown(PushRejected))
                  /\ UNCHANGED <<refs, commits>>
             [] outcome = "unavailable" ->
                  /\ Done(p, [me EXCEPT !.accepted = Append(@, 0)],
                          Thrown(RemoteUnavailable))
                  /\ UNCHANGED <<refs, commits>>
  /\ UNCHANGED orgName

(***************************************************************************)
(* create_feature_switch                                                   *)
(***************************************************************************)
\* catch (error) { throw new Error(`Failed to create feature switch: ...`) }
Wrapped(e) == [e EXCEPT !.prefix = "Failed to create feature switch: "]

FS_getRefs(p) ==
  /\ inv[p].pc = "fs_getRefs"
  /\ \E ok \in BOOLEAN :
       LET me == [inv[p] EXCEPT !.steps = Append(@, "getRefs")]
           sourceRef == getRefs(me.args.sourceBranch)
           failed == [me EXCEPT !.failedStep = "branch"]
       IN  IF ~ok THEN Done(p, failed, Thrown(Wrapped(RemoteUnavailable)))
           ELSE IF Len(sourceRef) = 0
           THEN Done(p, failed, Thrown(Wrapped(Err("Source branch not found",
                                                  <<me.args.sourceBranch>>, <<>>))))
           ELSE inv' = [inv EXCEPT ![p] =
                          [me EXCEPT !.sourceCommit = sourceRef[1].objectId,
                                     !.pc = "fs_updateRefs"]]
  /\ UNCHANGED <<orgName, refs, commits>>

\* The push of the configuration file, built after updateRefs has returned.
FS_push(me) ==
  [name |-> finalBranchName(me.args.branchName, me.args.featureName),
   oldObjectId |-> me.sourceCommit,
   changeType |-> "Add",
   path |-> filePath(me.args.featureName),
   content |-> JSONstringify(featureConfig(me.args.featureName, me.args.description))]

\* updateRefs; its result is awaited and dropped, then the push is built
\* and submitted.
FS_updateRefs(p) ==
  /\ inv[p].pc = "fs_updateRefs"
  /\ LET name == finalBranchName(inv[p].args.branchName, inv[p].args.featureName)
         me == [inv[p] EXCEPT !.steps = Append(@, "updateRefs"),
                              !.targetExisted = refs[name] # NULL_OBJECT_ID]
         goOn(m) == [m EXCEPT !.pushes = Append(@, FS_push(m)), !.pc = "fs_createPush"]
         failed == [me EXCEPT !.failedStep = "branch"]
     IN  \E outcome \in {"applied", "result", "throw", "unavailable"} :
           CASE outcome = "applied" ->
                  /\ RefUpdateApplies(name, NULL_OBJECT_ID)
                  /\ refs' = [refs EXCEPT ![name] = me.sourceCommit]
                  /\ inv' = [inv EXCEPT ![p] = goOn([me EXCEPT !.branchCreated = TRUE])]
             [] outcome = "result" ->
                  /\ ~RefUpdateApplies(name, NULL_OBJECT_ID)
                  /\ inv' = [inv EXCEPT ![p] = goOn(failed)]
                  /\ UNCHANGED refs
             [] outcome = "throw" ->
                  /\ ~RefUpdateApplies(name, NULL_OBJECT_ID)
                  /\ Done(p, failed, Thrown(Wrapped(RefUpdateRejected)))
                  /\ UNCHANGED refs
             [] outcome = "unavailable" ->
                  /\ Done(p, failed, Thrown(Wrapped(RemoteUnavailable)))
                  /\ UNCHANGED refs
  /\ UNCHANGED <<orgName, commits>>

FS_createPush(p) ==
  /\ inv[p].pc = "fs_createPush"
  /\ LET me == [inv[p] EXCEPT !.steps = Append(@, "createPush")]
         push == me.pushes[Len(me.pushes)]
         applies == PushApplies(push.name, push.oldObjectId, push.changeType, push.path)
         failed == [me EXCEPT !.accepted = Append(@, 0),
                              !.failedStep = IF @ = "none" THEN "file" ELSE @]
     IN  \E outcome \in {"applied", "rejected", "unavailable"} :
           CASE outcome = "applied" ->
                  /\ applies
                  /\ Len(commits) < MaxCommits
                  /\ commits' = Append(commits,
                        NewCommit(push.oldObjectId, push.path, push.content, p))
                  /\ refs' = [refs EXCEPT ![push.name] = Len(commits) + 1]
                  /\ Done(p, [me EXCEPT !.accepted = Append(@, Len(commits) + 1)],
                          ReturnedSuccess(Len(commits) + 1, Undefined, NoRefUpdate))
             [] outcome = "rejected" ->
                  /\ ~applies
                  /\ Done(p, failed, Thrown(Wrapped(PushRejected)))
                  /\ UNCHANGED <<refs, commits>>
             [] outcome = "unavailable" ->
                  /\ Done(p, failed, Thrown(Wrapped(RemoteUnavailable)))
                  /\ UNCHANGED <<refs, commits>>
  /\ UNCHANGED orgName

(***************************************************************************)
(* update_feature_switch                                                   *)
(***************************************************************************)
\* Mutant of UF_catch: the error is swallowed and success reported.
UF_catch_swallow(p, me, e) == Done(p, me, ReturnedSuccess(0, Undefined, NoRefUpdate))

\* Mutant of UF_catch: a rejected push starts the workflow again.
UF_catch_retry(p, me, e) ==
  IF e.msg = "push rejected"
  THEN inv' = [inv EXCEPT ![p] = [me EXCEPT !.pc = "uf_getBranch"]]
  ELSE Done(p, me, ReturnedFailure(e, me.args))

\* Mutant of UF_catch: the error is logged and the handler goes on to push
\* what it has.
UF_catch_goOn(p, me, e) ==
  inv' = [inv EXCEPT ![p] =
            [me EXCEPT !.pushes = Append(@, [name |-> me.args.branchName,
                                             oldObjectId |-> me.latestCommitId,
                                             changeType |-> "Edit",
                                             path |-> filePath(me.args.featureName),
                                             content |-> me.updatedContent]),
                       !.pc = "uf_createPush"]]

\* catch (error) { return { success: false, error: error.message, ... } }
UF_catch(p, me, e) == Done(p, me, ReturnedFailure(e, me.args))

\* Mutant of StageExists: the stage is not checked.
StageExists_unchecked(Environments, stage) == TRUE

\* currentConfig.Environments.hasOwnProperty(stage)
StageExists(Environments, stage) == HasOwnProperty(Environments, stage)

\* getBranch and the check of branch.commit?.commitId.  For a branch that
\* does not exist the client yields no branch or one without a commit.
UF_getBranch(p) ==
  /\ inv[p].pc = "uf_getBranch"
  /\ LET me == [inv[p] EXCEPT !.steps = Append(@, "ResolveTip")]
         tip == refs[me.args.branchName]
     IN  \E outcome \in {"ok", "null", "nocommit", "unavailable"} :
           CASE outcome = "ok" ->
                  /\ tip # NULL_OBJECT_ID
                  /\ inv' = [inv EXCEPT ![p] =
                       [me EXCEPT !.latestCommitId = tip, !.pc = "uf_getItemContent"]]
             [] outcome = "null" ->
                  /\ tip = NULL_OBJECT_ID
                  /\ UF_catch(p, me, Err("TypeError: cannot read properties of null", <<>>, <<>>))
             [] outcome = "nocommit" ->
                  /\ tip = NULL_OBJECT_ID
                  /\ UF_catch(p, me, Err("Could not find latest commit for branch",
                                       <<me.args.branchName>>, <<>>))
             [] outcome = "unavailable" ->
                  UF_catch(p, me, RemoteUnavailable)
  /\ UNCHANGED <<orgName, refs, commits>>

\* Lines 834-894: the check of the content, JSON.parse, the checks of
\* Environments and of the stage, the assignment and JSON.stringify.
UF_local(me) ==
  LET args == me.args
      path == filePath(args.featureName)
      fail(m, e) == [ok |-> FALSE, error |-> e, me |-> m]
      decoded == [me EXCEPT !.steps = Append(@, "Decode")]
  IN  IF me.fileContent.kind \in {"empty", "undefined"}
      THEN fail(me, Err("Could not find feature switch file content", <<path>>, <<>>))
      ELSE IF JSONparseThrows(me.fileContent)
      THEN fail(decoded, Err("SyntaxError", <<>>, <<>>))
      ELSE
        LET currentConfig == JSONparse(me.fileContent)
            Environments == GetProp(currentConfig, "Environments")
            validated == [decoded EXCEPT !.steps = Append(@, "ValidateStage")]
        IN  IF currentConfig.t = "null"
            THEN fail(decoded, Err("TypeError: cannot read properties of null", <<>>, <<>>))
            ELSE IF Falsy(Environments)
            THEN fail(decoded, Err("'Environments' section not found", <<>>, <<>>))
            ELSE IF ~StageExists(Environments, args.stage)
            THEN fail(validated, Err("Stage not found in Environments section",
                                     <<>>, <<args.stage>> \o ObjectKeys(Environments)))
            ELSE
              LET mutated == SetStage(currentConfig, args.stage,
                               StageConfig(args.tenantIds, args.rolloutName, args.enabled))
              IN  [ok |-> TRUE, error |-> NoError,
                   me |-> [validated EXCEPT
                             !.steps = @ \o <<"CompileMutate", "Encode">>,
                             !.currentConfig = mutated,
                             !.updatedContent = JSONstringify(mutated)]]

\* Mutant of UF_push: the push names the tip the branch has when the push
\* is built instead of the one read first.
UF_push_currentTip(me) ==
  [name |-> me.args.branchName,
   oldObjectId |-> refs[me.args.branchName],
   changeType |-> "Edit",
   path |-> filePath(me.args.featureName),
   content |-> me.updatedContent]

\* The push of the updated file, conditioned on the commit id read first.
UF_push(me) ==
  [name |-> me.args.branchName,
   oldObjectId |-> me.latestCommitId,
   changeType |-> "Edit",
   path |-> filePath(me.args.featureName),
   content |-> me.updatedContent]

\* What follows the retrieval of the content, up to the call of createPush.
UF_afterFetch(p, me) ==
  LET r == UF_local(me)
  IN  IF r.ok
      THEN inv' = [inv EXCEPT ![p] =
                     [r.me EXCEPT !.pushes = Append(@, UF_push(r.me)),
                                  !.pc = "uf_createPush"]]
      ELSE UF_catch(p, r.me, r.error)

\* getItemContent by branch name: the service answers with a stream of the
\* file the branch has at that moment, with no stream, or with an error.
UF_getItemContent(p) ==
  /\ inv[p].pc = "uf_getItemContent"
  /\ LET me == [inv[p] EXCEPT !.steps = Append(@, "FetchPrimary")]
         item == ItemAtBranch(me.args.branchName, filePath(me.args.featureName))
     IN  \E outcome \in {"stream", "nostream", "error"} :
           CASE outcome = "stream" ->
                  /\ item # AbsentText
                  /\ inv' = [inv EXCEPT ![p] =
                       [me EXCEPT !.contentStream = item, !.pc = "uf_contentStream"]]
             [] outcome = "nostream" ->
                  inv' = [inv EXCEPT ![p] =
                            [me EXCEPT !.error = Err("No content stream returned", <<>>, <<>>),
                                       !.pc = "uf_fallback"]]
             [] outcome = "error" ->
                  inv' = [inv EXCEPT ![p] =
                            [me EXCEPT !.error = RemoteUnavailable, !.pc = "uf_fallback"]]
  /\ UNCHANGED <<orgName, refs, commits>>

\* Mutant of UF_streamError: the stream's 'error' event has no listener, so
\* the promise the handler awaits is never settled.
UF_streamError_unhandled(p, me) ==
  inv' = [inv EXCEPT ![p] = [me EXCEPT !.pc = "uf_awaitStream"]]

\* contentStream.on('error', (error) => reject(error)): the rejection is
\* caught and the fallback is tried.
UF_streamError(p, me) ==
  inv' = [inv EXCEPT ![p] = [me EXCEPT !.error = RemoteUnavailable, !.pc = "uf_fallback"]]

\* The handler awaits the promise that the stream's 'end' event resolves
\* with the chunks read and its 'error' event rejects.
UF_contentStream(p) ==
  /\ inv[p].pc = "uf_contentStream"
  /\ LET me == [inv[p] EXCEPT !.contentStream = NoText]
     IN  \E event \in {"end", "error"} :
           IF event = "end"
           THEN UF_afterFetch(p, [me EXCEPT !.fileContent = inv[p].contentStream])
           ELSE UF_streamError(p, me)
  /\ UNCHANGED <<orgName, refs, commits>>

\* What a repository of the same id holds in another organization.
OtherOrgContent == ForeignDoc(<<"other-org">>)

\* The fallback: a fetch of the items URL of organization FallbackOrg.
UF_fallback(p) ==
  /\ inv[p].pc = "uf_fallback"
  /\ LET me == [inv[p] EXCEPT !.steps = Append(@, "FetchFallback")]
         path == filePath(me.args.featureName)
         item == IF orgName = FallbackOrg
                 THEN ItemAtBranch(me.args.branchName, path)
                 ELSE OtherOrgContent
     IN  \/ \* the response is not ok
            UF_catch(p, me, Err("Could not find file", <<path, me.args.branchName>>,
                                 <<me.error.msg>>))
         \/ \* the response is ok and has an empty body
            UF_afterFetch(p, [me EXCEPT !.fileContent = NoText])
         \/ \* the response is ok and carries the file
            /\ item # AbsentText
            /\ UF_afterFetch(p, [me EXCEPT !.fileContent = item])
  /\ UNCHANGED <<orgName, refs, commits>>

UF_createPush(p) ==
  /\ inv[p].pc = "uf_createPush"
  /\ LET me == [inv[p] EXCEPT !.steps = Append(@, "Push")]
         push == me.pushes[Len(me.pushes)]
         applies == PushApplies(push.name, push.oldObjectId, push.changeType, push.path)
     IN  \E outcome \in {"applied", "rejected", "unavailable"} :
           CASE outcome = "applied" ->
                  /\ applies
                  /\ Len(commits) < MaxCommits
                  /\ commits' = Append(commits,
                        NewCommit(push.oldObjectId, push.path, push.content, p))
                  /\ refs' = [refs EXCEPT ![push.name] = Len(commits) + 1]
                  /\ Done(p, [me EXCEPT !.accepted = Append(@, Len(commits) + 1)],
                          ReturnedSuccess(Len(commits) + 1,
                            GetProp(GetProp(me.currentConfig, "Environments"), me.args.stage),
                            NoRefUpdate))
             [] outcome = "rejected" ->
                  /\ ~applies
                  /\ UF_catch(p, [me EXCEPT !.accepted = Append(@, 0),
                                             !.conflict = refs[push.name] # push.oldObjectId],
                              PushRejected)
                  /\ UNCHANGED <<refs, commits>>
             [] outcome = "unavailable" ->
                  /\ UF_catch(p, [me EXCEPT !.accepted = Append(@, 0)], RemoteUnavailable)
                  /\ UNCHANGED <<refs, commits>>
  /\ UNCHANGED orgName

(***************************************************************************)
(* Other clients of the repository push commits to existing branches.      *)
(***************************************************************************)
ExternalPush ==
  /\ Len(commits) < MaxCommits
  /\ \E w \in ExternalWriters, b \in BranchNames, path \in Paths, c \in ExternalContents :
       /\ \A i \in 1..Len(commits) : commits[i].by # w
       /\ refs[b] # NULL_OBJECT_ID
       /\ commits' = Append(commits, NewCommit(refs[b], path, c, w))
       /\ refs' = [refs EXCEPT ![b] = Len(commits) + 1]
  /\ UNCHANGED <<orgName, inv>>

(***************************************************************************)
(* The specification.                                                      *)
(***************************************************************************)
RootCommit == [parent |-> NULL_OBJECT_ID, files |-> NoFiles, by |-> "init"]

\* master exists; the feature branch either does not exist or holds the
\* feature file in a commit on top of master.
Init ==
  /\ inv = [p \in Procs |-> Idle]
  /\ \/ /\ orgName = FallbackOrg
        /\ commits = <<RootCommit>>
        /\ refs = [b \in BranchNames |->
                     IF b = <<"master">> THEN 1 ELSE NULL_OBJECT_ID]
     \/ \E r \in InitialRepos :
        /\ orgName = r[1]
        /\ commits = <<RootCommit,
                       [parent |-> 1,
                        files |-> [NoFiles EXCEPT ![filePath(<<"F", "_", "1">>)] = r[2]],
                        by |-> "init"]>>
        /\ refs = [b \in BranchNames |->
                     CASE b = <<"master">> -> 1
                       [] b = <<"feature/", "f", "-", "1">> -> 2
                       [] OTHER -> NULL_OBJECT_ID]

Next ==
  \/ \E p \in Procs :
       \/ Start(p)
       \/ CB_getRefs(p) \/ CB_updateRefs(p)
       \/ CF_getRefs(p) \/ CF_createPush(p)
       \/ FS_getRefs(p) \/ FS_updateRefs(p) \/ FS_createPush(p)
       \/ UF_getBranch(p) \/ UF_getItemContent(p) \/ UF_contentStream(p)
       \/ UF_fallback(p) \/ UF_createPush(p)
  \/ ExternalPush

Spec == Init /\ [][Next]_vars

(***************************************************************************)
(* One invocation of update_feature_switch among other clients, which push *)
(* to branches and, in SpecReset, also move a branch back to the parent of *)
(* its tip (a forced ref update).                                          *)
(***************************************************************************)
UpdateStart(p) == Start(p) /\ inv'[p].tool = "update_feature_switch"

UpdateStep(p) ==
  \/ UF_getBranch(p) \/ UF_getItemContent(p) \/ UF_contentStream(p)
  \/ UF_fallback(p) \/ UF_createPush(p)

ExternalReset ==
  /\ \E b \in BranchNames :
       /\ refs[b] # NULL_OBJECT_ID
       /\ commits[refs[b]].parent # NULL_OBJECT_ID
       /\ refs' = [refs EXCEPT ![b] = commits[refs[b]].parent]
  /\ UNCHANGED <<orgName, commits, inv>>

UpdateNext == UpdateStart("p1") \/ UpdateStep("p1") \/ ExternalPush

SpecReset == Init /\ [][UpdateNext \/ ExternalReset]_vars

\* Every remote call the invocation waits for eventually returns or fails.
SpecLive == Init /\ [][UpdateNext]_vars /\ WF_vars(UpdateStep("p1"))

(***************************************************************************)
(* The document codec on its own: one invocation has a document in memory  *)
(* and encodes it as update_feature_switch does before its push, the other *)
(* decodes the text as update_feature_switch does after its fetch.         *)
(***************************************************************************)
\* Stage names and stage values of the documents; ring0 is none of the
\* twelve stages of featureConfig.
CodecStages == <<"onebox", "prod", "ring0">>
CodecStageValues ==
  { JObj(<<>>),
    StageConfig(<<>>, <<>>, TRUE),
    StageConfig(<<>>, <<>>, FALSE),
    StageConfig(<< <<"t1">>, <<"t2">> >>, <<"daily">>, TRUE) }

\* Top-level members this system does not know.
CodecExtras ==
  { <<>>,
    << <<"Owner", JStr(<<"team-a">>)>> >>,
    << <<"Tags", JArr(<<JStr(<<"x">>), JNull>>)>>, <<"Owner", JNull>> >> }

\* Documents as JSON.parse yields them: Id, Description and an Environments
\* object, with or without further members.
WellFormedDocs ==
  { JObj(<< <<"Id", JStr(<<"F", "_", "1">>)>> >> \o extra \o
         << <<"Description", JStr(<<"desc">>)>>,
            <<"Environments",
              JObj([i \in DOMAIN CodecStages |-> <<CodecStages[i], values[i]>>])>> >>) :
      extra \in CodecExtras, values \in [DOMAIN CodecStages -> CodecStageValues] }

\* const updatedContent = JSON.stringify(currentConfig, null, 2)
CodecEncode(p) ==
  /\ inv[p].pc = "encode"
  /\ inv' = [inv EXCEPT ![p] =
               [@ EXCEPT !.updatedContent = JSONstringify(inv[p].currentConfig),
                         !.pc = "encoded"]]
  /\ UNCHANGED <<orgName, refs, commits>>

\* currentConfig = JSON.parse(fileContent), on the text p has encoded.
CodecDecode(p, q) ==
  /\ inv[p].pc = "encoded"
  /\ inv[q].pc = "decode"
  /\ ~JSONparseThrows(inv[p].updatedContent)
  /\ inv' = [inv EXCEPT ![q] =
               [@ EXCEPT !.fileContent = inv[p].updatedContent,
                         !.currentConfig = JSONparse(inv[p].updatedContent),
                         !.pc = "decoded"]]
  /\ UNCHANGED <<orgName, refs, commits>>

CodecInit ==
  /\ orgName = FallbackOrg
  /\ commits = <<RootCommit>>
  /\ refs = [b \in BranchNames |-> IF b = <<"master">> THEN 1 ELSE NULL_OBJECT_ID]
  /\ \E d \in WellFormedDocs :
       inv = [p \in Procs |->
                IF p = "p1"
                THEN [Idle EXCEPT !.pc = "encode", !.currentConfig = d]
                ELSE [Idle EXCEPT !.pc = "decode"]]

CodecNext == CodecEncode("p1") \/ CodecDecode("p1", "p2")

SpecCodec == CodecInit /\ [][CodecNext]_vars

(***************************************************************************)
(* The prompts create_feature_switch and update_feature_switch, applied to *)
(* the same feature name and branch name: p1 is given the first prompt, p2 *)
(* the second.                                                             *)
(***************************************************************************)
PromptChars == {"F", "_", "1", "a"}
PromptFeatureNames ==
  {<<>>} \cup {<<a>> : a \in PromptChars} \cup {<<a, b>> : a, b \in PromptChars}
         \cup {<<a, b, c>> : a, b, c \in PromptChars}
PromptBranchNames == {<<>>, <<"feature/", "f">>}

\* branchName || featureName.toLowerCase().replace(/[^a-z0-9]/g, '-')
sanitizedBranchName(branchName, featureName) ==
  IF branchName # <<>> THEN branchName ELSE Sanitize(featureName)

\* featureName ? `feature/${...}` : 'feature/unknown'
defaultBranch(featureName) ==
  IF featureName # <<>>
  THEN <<"feature/">> \o Sanitize(featureName)
  ELSE <<"feature/", "unknown">>

\* The create_feature_switch prompt: the text names the tool and the
\* parameters to call it with.
PromptCreate(p) ==
  /\ inv[p].pc = "prompt_create"
  /\ LET args == inv[p].args
     IN  inv' = [inv EXCEPT ![p] =
                   [@ EXCEPT !.told = [NoArgs EXCEPT
                                         !.featureName = args.featureName,
                                         !.description = args.description,
                                         !.sourceBranch = <<"master">>,
                                         !.branchName =
                                           sanitizedBranchName(args.branchName,
                                                               args.featureName)],
                             !.pc = "prompted"]]
  /\ UNCHANGED <<orgName, refs, commits>>

\* The update_feature_switch prompt: the text is the tool call as JSON.
PromptUpdate(p) ==
  /\ inv[p].pc = "prompt_update"
  /\ LET args == inv[p].args
     IN  inv' = [inv EXCEPT ![p] =
                   [@ EXCEPT !.told = [NoArgs EXCEPT
                                         !.branchName =
                                           IF args.branchName # <<>>
                                           THEN args.branchName
                                           ELSE defaultBranch(args.featureName),
                                         !.featureName = args.featureName,
                                         !.stage = args.stage,
                                         !.rolloutName = args.rolloutName,
                                         !.tenantIds = args.tenantIds,
                                         !.isMember = args.isMember],
                             !.pc = "prompted"]]
  /\ UNCHANGED <<orgName, refs, commits>>

PromptInit ==
  /\ orgName = FallbackOrg
  /\ commits = <<RootCommit>>
  /\ refs = [b \in BranchNames |-> IF b = <<"master">> THEN 1 ELSE NULL_OBJECT_ID]
  /\ \E fn \in PromptFeatureNames, bn \in PromptBranchNames :
       inv = [p \in Procs |->
                IF p = "p1"
                THEN [Idle EXCEPT !.pc = "prompt_create",
                                  !.args = [NoArgs EXCEPT !.featureName = fn,
                                                          !.branchName = bn,
                                                          !.description = <<"desc">>]]
                ELSE [Idle EXCEPT !.pc = "prompt_update",
                                  !.args = [NoArgs EXCEPT !.featureName = fn,
                                                          !.branchName = bn,
                                                          !.stage = "prod",
                                                          !.rolloutName = <<"daily">>]]]

PromptNext == PromptCreate("p1") \/ PromptUpdate("p2")

SpecPrompts == PromptInit /\ [][PromptNext]_vars

(***************************************************************************)
(* update_pull_request_status.                                             *)
(***************************************************************************)
\* PullRequestStatus of the client library; the search for open pull
\* requests passes status: 1.
PullRequestStatus == [active |-> 1, abandoned |-> 2, completed |-> 3]

PullRequestIds == {1, 2}
StatusNames == {"active", "abandoned"}

\* The handler's parameter list binds repositoryId and pullRequestId only;
\* `status` in its body is the global of that name: not declared, or a
\* string that is no argument of the call.
GlobalStatus == {"undeclared", "", "active", "abandoned"}

\* The dispatcher calls the handler with the validated arguments; the
\* connection or the Git client may fail.
PR_Start(p) ==
  /\ inv[p].pc = "idle"
  /\ \E id \in PullRequestIds, st \in StatusNames, connected \in BOOLEAN :
       LET me == [inv[p] EXCEPT !.tool = "update_pull_request_status",
                                !.args = [NoArgs EXCEPT !.pullRequestId = id,
                                                        !.status = st]]
       IN  IF connected
           THEN inv' = [inv EXCEPT ![p] = [me EXCEPT !.pc = "pr_updatePullRequest"]]
           ELSE Done(p, me, Thrown(RemoteUnavailable))
  /\ UNCHANGED <<orgName, refs, commits>>

\* statusValue = status === "active" ? 3 : 2, then updatePullRequest with
\* { status: statusValue }; the handler catches nothing.
PR_updatePullRequest(p) ==
  /\ inv[p].pc = "pr_updatePullRequest"
  /\ LET me == [inv[p] EXCEPT !.steps = Append(@, "statusValue")]
     IN  \E status \in GlobalStatus, served \in BOOLEAN :
           IF status = "undeclared"
           THEN Done(p, me, Thrown(Err("ReferenceError: status is not defined", <<>>, <<>>)))
           ELSE LET statusValue == IF status = "active" THEN 3 ELSE 2
                    sent == [me EXCEPT !.prUpdates =
                               Append(@, [pullRequestId |-> me.args.pullRequestId,
                                          status |-> statusValue])]
                IN  IF served
                    THEN Done(p, sent, ReturnedSuccess(0, Undefined, NoRefUpdate))
                    ELSE Done(p, sent, Thrown(RemoteUnavailable))
  /\ UNCHANGED <<orgName, refs, commits>>

PRNext == \E p \in Procs : PR_Start(p) \/ PR_updatePullRequest(p)

SpecPR == Init /\ [][PRNext]_vars

(***************************************************************************)
(* Properties.                                                             *)
(***************************************************************************)
Count(seq, x) == Cardinality({i \in DOMAIN seq : seq[i] = x})

IsUpdate(p) == inv[p].tool = "update_feature_switch"
IsCreateSwitch(p) == inv[p].tool = "create_feature_switch"
Finished(p) == inv[p].pc = "done"
Failed(p) == Finished(p) /\ ~inv[p].result.success

\* The commits the service created for pushes of invocation p.
CommitsOf(p) == {i \in 1..Len(commits) : commits[i].by = p}

RECURSIVE IsAncestorOrSelf(_, _)
IsAncestorOrSelf(a, c) ==
  c # NULL_OBJECT_ID /\ (c = a \/ IsAncestorOrSelf(a, commits[c].parent))

\* The branch a writing invocation pushes to, and the tip it read first.
WrittenBranch(p) == inv[p].args.branchName
TipRead(p) ==
  IF IsUpdate(p) THEN inv[p].latestCommitId ELSE inv[p].branchCommit
IsBranchWriter(p) == inv[p].tool \in {"update_feature_switch", "create_file"}

\* C1: when the push of update_feature_switch is applied while the branch is
\* no longer at the commit read by ResolveTip, the push is rejected: the
\* branch and the commit store stay as the other writer left them and the
\* tool returns a failure result.
C1_StalePushRejected ==
  [][\A p \in Procs :
       (/\ IsUpdate(p)
        /\ inv[p].pc = "uf_createPush"
        /\ inv'[p].pc = "done"
        /\ refs[WrittenBranch(p)] # inv[p].latestCommitId)
       => /\ refs' = refs
          /\ commits' = commits
          /\ inv'[p].result.status = "returned"
          /\ ~inv'[p].result.success
          /\ inv'[p].accepted = <<0>>]_vars

C1_Witness ==
  \E p \in Procs :
    /\ IsUpdate(p) /\ Finished(p)
    /\ inv[p].accepted = <<0>>
    /\ inv[p].result.error = PushRejected
    /\ refs[WrittenBranch(p)] # inv[p].latestCommitId
    /\ commits[refs[WrittenBranch(p)]].by # p
    /\ commits[refs[WrittenBranch(p)]].parent = inv[p].latestCommitId

C3_NoRetry ==
  /\ [](\A p \in Procs :
          IsUpdate(p) =>
            /\ Count(inv[p].steps, "ResolveTip") <= 1
            /\ Len(inv[p].pushes) <= 1
            /\ Count(inv[p].steps, "Push") <= 1
            /\ (inv[p].accepted # <<>> /\ inv[p].accepted[1] = 0) => Failed(p))
  /\ [][\A p \in Procs : (IsUpdate(p) /\ Finished(p)) => inv'[p] = inv[p]]_vars

C3_Witness ==
  \E p \in Procs :
    /\ IsUpdate(p) /\ Failed(p)
    /\ inv[p].accepted = <<0>>
    /\ inv[p].result.error = PushRejected
    /\ Count(inv[p].steps, "ResolveTip") = 1
    /\ Count(inv[p].steps, "Push") = 1

\* The document of a JSON text: its members read left to right.
DocOf(text) == ParseValue(text.v)

\* The file an accepted push of invocation p committed.
PushedText(p) == commits[inv[p].accepted[1]].files[filePath(inv[p].args.featureName)]
Accepted(p) == inv[p].accepted # <<>> /\ inv[p].accepted[1] # 0

\* C4: the document an accepted update_feature_switch push commits has the
\* top-level fields of the document read, in the same order and with the
\* same values except Environments, and the stages of the document read, in
\* the same order and with the same values except the requested stage, which
\* is exactly the compiled stage config.
C4_OnlyStageChanges ==
  \A p \in Procs :
    (IsUpdate(p) /\ Accepted(p)) =>
      LET read == DocOf(inv[p].fileContent)
          pushed == DocOf(PushedText(p))
          readEnv == GetProp(read, "Environments")
          pushedEnv == GetProp(pushed, "Environments")
      IN  /\ ObjectKeys(pushed) = ObjectKeys(read)
          /\ \A k \in Range(ObjectKeys(read)) \ {"Environments"} :
               GetProp(pushed, k) = GetProp(read, k)
          /\ ObjectKeys(pushedEnv) = ObjectKeys(readEnv)
          /\ \A st \in Range(ObjectKeys(readEnv)) \ {inv[p].args.stage} :
               GetProp(pushedEnv, st) = GetProp(readEnv, st)
          /\ GetProp(pushedEnv, inv[p].args.stage) =
               StageConfig(inv[p].args.tenantIds, inv[p].args.rolloutName,
                           inv[p].args.enabled)

C4_Witness ==
  \E p \in Procs :
    /\ IsUpdate(p) /\ Accepted(p)
    /\ inv[p].args.stage = "test"
    /\ ~hasRequirements(inv[p].args.tenantIds, inv[p].args.rolloutName)
    /\ HasOwnProperty(DocOf(inv[p].fileContent), "Owner")
    /\ HasOwnProperty(GetProp(GetProp(DocOf(inv[p].fileContent), "Environments"), "test"),
                      "Requires")
    /\ GetProp(GetProp(DocOf(PushedText(p)), "Environments"), "test")
         = JObj(<< <<"Enabled", JBool(FALSE)>> >>)

\* The document read has an Environments object without the requested stage.
StageUnknown(p) ==
  /\ IsUpdate(p)
  /\ "Decode" \in Range(inv[p].steps)
  /\ inv[p].fileContent.kind = "json"
  /\ DocOf(inv[p].fileContent).t = "obj"
  /\ GetProp(DocOf(inv[p].fileContent), "Environments").t = "obj"
  /\ ~HasOwnProperty(GetProp(DocOf(inv[p].fileContent), "Environments"), inv[p].args.stage)

\* C5: when the requested stage is no key of Environments, the invocation
\* has ended with the stage-not-found error, which lists each key of
\* Environments once and nothing else; it submitted no push and committed
\* nothing.
C5_UnknownStageFails ==
  \A p \in Procs :
    StageUnknown(p) =>
      LET keys == ObjectKeys(GetProp(DocOf(inv[p].fileContent), "Environments"))
          e == inv[p].result.error
      IN  /\ Failed(p)
          /\ inv[p].result.status = "returned"
          /\ e.msg = "Stage not found in Environments section"
          /\ e.keys = <<inv[p].args.stage>> \o keys
          /\ Cardinality(Range(keys)) = Len(keys)
          /\ inv[p].pushes = <<>>
          /\ CommitsOf(p) = {}

C5_Witness ==
  \E p \in Procs :
    /\ StageUnknown(p) /\ Failed(p)
    /\ inv[p].args.stage = "canary"
    /\ inv[p].result.error.keys = <<"canary", "onebox", "test", "prod">>

RetrievalErrors ==
  {"Could not find file", "Could not find feature switch file content"}

\* C6: update_feature_switch reports that the file could not be found only
\* after it has attempted the primary retrieval once and the fallback
\* retrieval once.
C6_BothPathsAttempted ==
  \A p \in Procs :
    (IsUpdate(p) /\ Failed(p) /\ inv[p].result.error.msg \in RetrievalErrors)
    => /\ Count(inv[p].steps, "FetchPrimary") = 1
       /\ Count(inv[p].steps, "FetchFallback") = 1

IsBranchCreator(p) == inv[p].tool \in {"create_branch", "create_feature_switch"}

\* C7: a create_branch or create_feature_switch whose target ref existed
\* when its ref update ran has ended in failure and has committed nothing.
C7_ExistingBranchIsFailure ==
  \A p \in Procs :
    (IsBranchCreator(p) /\ Finished(p) /\ inv[p].targetExisted)
    => /\ Failed(p)
       /\ CommitsOf(p) = {}

\* C8: a create_feature_switch whose branch creation failed has submitted no
\* push.
C8_NoPushAfterBranchFailure ==
  \A p \in Procs :
    (IsCreateSwitch(p) /\ inv[p].failedStep = "branch") => inv[p].pushes = <<>>

\* C9: the failure of a create_feature_switch that failed at branch creation
\* differs from the failure of one that failed at the file commit.
C9_FailureNamesStep ==
  \A p, q \in Procs :
    (/\ IsCreateSwitch(p) /\ Failed(p) /\ inv[p].failedStep = "branch"
     /\ IsCreateSwitch(q) /\ Failed(q) /\ inv[q].failedStep = "file")
    => inv[p].result.error # inv[q].result.error

\* C10: every failure of a tool that has started its workflow is a returned
\* payload that carries the error and the identifying arguments.
C10_FailuresAreReturned ==
  \A p \in Procs :
    (Failed(p) /\ inv[p].steps # <<>>)
    => /\ inv[p].result.status = "returned"
       /\ inv[p].result.error # NoError
       /\ inv[p].result.params = ParamsOf(inv[p].args)

\* What a caller reads from a result to tell the outcomes apart: how it was
\* handed over, its success flag and its error.
Outcome(p) ==
  [status |-> inv[p].result.status, success |-> inv[p].result.success,
   error |-> inv[p].result.error]

\* C11: the result of an update_feature_switch whose push was rejected
\* because the tip had advanced differs from the result of every
\* update_feature_switch that failed for another reason.
C11_ConflictDistinguished ==
  \A p, q \in Procs :
    (/\ IsUpdate(p) /\ Failed(p) /\ inv[p].conflict
     /\ IsUpdate(q) /\ Failed(q) /\ ~inv[q].conflict)
    => Outcome(p) # Outcome(q)

PushedStage(p) ==
  GetProp(GetProp(DocOf(PushedText(p)), "Environments"), inv[p].args.stage)

\* C13: an accepted update_feature_switch without tenantIds and without
\* rolloutName commits a file whose requested stage is exactly
\* {Enabled: enabled}, whatever the stage held before.
C13_SimpleToggle ==
  \A p \in Procs :
    (/\ IsUpdate(p) /\ Accepted(p)
     /\ inv[p].args.tenantIds = <<>> /\ inv[p].args.rolloutName = <<>>)
    => PushedStage(p) = JObj(<< <<"Enabled", JBool(inv[p].args.enabled)>> >>)

C13_Witness ==
  \E p \in Procs :
    /\ IsUpdate(p) /\ Accepted(p) /\ inv[p].result.success
    /\ inv[p].args.tenantIds = <<>> /\ inv[p].args.rolloutName = <<>>
    /\ ~inv[p].args.enabled
    /\ HasOwnProperty(GetProp(GetProp(DocOf(inv[p].fileContent), "Environments"),
                              inv[p].args.stage), "Requires")
    /\ ObjectKeys(PushedStage(p)) = <<"Enabled">>
    /\ GetProp(PushedStage(p), "Enabled") = JBool(FALSE)

\* C14: an accepted update_feature_switch with a rolloutName or tenantIds
\* commits a file whose requested stage is exactly {Requires: list}; the
\* list holds one requirement for the rollout name, if given, with Pivot
\* RolloutName and Values [rolloutName], followed by one for the tenant ids,
\* if given, with Pivot TenantObjectId and Values the tenant ids in input
\* order.
C14_RequiresOrder ==
  \A p \in Procs :
    (/\ IsUpdate(p) /\ Accepted(p)
     /\ (inv[p].args.tenantIds # <<>> \/ inv[p].args.rolloutName # <<>>))
    => LET tenantIds == inv[p].args.tenantIds
           rolloutName == inv[p].args.rolloutName
           requires == GetProp(PushedStage(p), "Requires")
           Parameter(i, k) == GetProp(GetProp(requires.e[i], "Parameters"), k)
           nRollout == IF rolloutName # <<>> THEN 1 ELSE 0
           nTenant == IF tenantIds # <<>> THEN 1 ELSE 0
       IN  /\ ObjectKeys(PushedStage(p)) = <<"Requires">>
           /\ requires.t = "arr"
           /\ Len(requires.e) = nRollout + nTenant
           /\ nRollout = 1 =>
                /\ Parameter(1, "Pivot") = JStr(<<"RolloutName">>)
                /\ Parameter(1, "Values") = JArr(<<JStr(rolloutName)>>)
           /\ nTenant = 1 =>
                /\ Parameter(nRollout + 1, "Pivot") = JStr(<<"TenantObjectId">>)
                /\ Parameter(nRollout + 1, "Values") =
                     JArr([i \in 1..Len(tenantIds) |-> JStr(tenantIds[i])])

C14_Witness ==
  \E p \in Procs :
    /\ IsUpdate(p) /\ Accepted(p) /\ inv[p].result.success
    /\ inv[p].args.rolloutName = <<"daily">>
    /\ inv[p].args.tenantIds = << <<"t1">>, <<"t2">> >>
    /\ Len(GetProp(PushedStage(p), "Requires").e) = 2

\* The requirement name that stands for the operator asked for.
NameOf(isMember) ==
  IF memberOperator(isMember) = "NotMemberOf"
  THEN JStr(<<"PowerBI.NotMemberOf">>) ELSE JStr(<<"PowerBI.MemberOf">>)

\* C15: every requirement an accepted membership update commits at the
\* requested stage is named PowerBI.NotMemberOf when isMember is false and
\* PowerBI.MemberOf otherwise.
C15_MemberOperator ==
  \A p \in Procs :
    (/\ IsUpdate(p) /\ Accepted(p)
     /\ hasRequirements(inv[p].args.tenantIds, inv[p].args.rolloutName))
    => LET requires == GetProp(PushedStage(p), "Requires")
       IN  \A i \in 1..Len(requires.e) :
             GetProp(requires.e[i], "Name") = NameOf(inv[p].args.isMember)

\* C16: an update_feature_switch that asks for a membership update and gives
\* neither tenant ids nor a rollout name submits no push and, once it has
\* ended, has failed.
C16_EmptyRequirementFails ==
  \A p \in Procs :
    (/\ IsUpdate(p)
     /\ inv[p].args.isMember # ""
     /\ inv[p].args.tenantIds = <<>> /\ inv[p].args.rolloutName = <<>>)
    => /\ inv[p].pushes = <<>>
       /\ Finished(p) => Failed(p)

\* The errors that say the document is malformed.
MalformedErrors == {"SyntaxError", "'Environments' section not found"}

\* The content fetched is no JSON text, or its document has no Environments
\* object.
Malformed(p) ==
  /\ IsUpdate(p)
  /\ "Decode" \in Range(inv[p].steps)
  /\ \/ inv[p].fileContent.kind # "json"
     \/ DocOf(inv[p].fileContent).t # "obj"
     \/ GetProp(DocOf(inv[p].fileContent), "Environments").t # "obj"

\* C17: an update_feature_switch that fetched content which is no JSON text,
\* or whose document has no Environments object, has failed with a
\* malformed-document error and has submitted no push.
C17_MalformedFails ==
  \A p \in Procs :
    Malformed(p) =>
      /\ Failed(p)
      /\ inv[p].result.error.msg \in MalformedErrors
      /\ inv[p].pushes = <<>>

\* C18: of two update_feature_switch invocations with identical arguments
\* whose pushes are both accepted, the second directly on top of the first,
\* the second commits the same value at the requested stage and pushes the
\* same content as the first.
C18_Idempotent ==
  \A p, q \in Procs :
    (/\ p # q
     /\ IsUpdate(p) /\ Accepted(p)
     /\ IsUpdate(q) /\ Accepted(q)
     /\ inv[p].args = inv[q].args
     /\ commits[inv[q].accepted[1]].parent = inv[p].accepted[1])
    => /\ PushedStage(q) = PushedStage(p)
       /\ inv[q].pushes[1].content = inv[p].pushes[1].content

\* C19: a create_feature_switch for feature F_1 without a branch name that
\* has returned success has created the branch feature/f-1, and the commit
\* it returned is on that branch and holds, at
\* Features/Configuration/Features/F_1.json, a JSON text whose document has
\* the members Id = F_1, Description = the description given and
\* Environments, which has the twelve stage keys and an empty object at each.
C19_CreateDefault ==
  \A p \in Procs :
    (/\ IsCreateSwitch(p) /\ Finished(p) /\ inv[p].result.success
     /\ inv[p].args.branchName = <<>>
     /\ inv[p].args.featureName = <<"F", "_", "1">>)
    => LET branch == <<"feature/", "f", "-", "1">>
           c == inv[p].result.commitId
           text == commits[c].files[<<"Features/Configuration/Features/",
                                      "F", "_", "1", ".json">>]
           doc == DocOf(text)
           Environments == GetProp(doc, "Environments")
       IN  /\ inv[p].branchCreated
           /\ c \in CommitsOf(p)
           /\ IsAncestorOrSelf(c, refs[branch])
           /\ text.kind = "json"
           /\ ObjectKeys(doc) = <<"Id", "Description", "Environments">>
           /\ GetProp(doc, "Id") = JStr(<<"F", "_", "1">>)
           /\ GetProp(doc, "Description") = JStr(inv[p].args.description)
           /\ ObjectKeys(Environments) =
                <<"onebox", "test", "cst", "dxt", "msit", "prod",
                  "mc", "gcc", "gcchigh", "dod", "usnat", "ussec">>
           /\ \A k \in Range(ObjectKeys(Environments)) :
                GetProp(Environments, k) = JObj(<<>>)

ReadFromRepository(p) ==
  orgName = FallbackOrg \/ "FetchFallback" \notin Range(inv[p].steps)

\* C21: the document an accepted update_feature_switch push commits, for
\* content read from the repository itself, is the document the file has at
\* the parent of the new commit with only the requested stage replaced: the
\* same top-level members in the same order with the same values except
\* Environments, and the same stages in the same order with the same values
\* except the requested one.
C21_BasedOnParent ==
  \A p \in Procs :
    (IsUpdate(p) /\ Accepted(p) /\ ReadFromRepository(p)) =>
      LET c == inv[p].accepted[1]
          path == filePath(inv[p].args.featureName)
          base == DocOf(commits[commits[c].parent].files[path])
          pushed == DocOf(commits[c].files[path])
          baseEnv == GetProp(base, "Environments")
          pushedEnv == GetProp(pushed, "Environments")
      IN  /\ commits[c].parent = inv[p].pushes[1].oldObjectId
          /\ ObjectKeys(pushed) = ObjectKeys(base)
          /\ \A k \in Range(ObjectKeys(base)) \ {"Environments"} :
               GetProp(pushed, k) = GetProp(base, k)
          /\ ObjectKeys(pushedEnv) = ObjectKeys(baseEnv)
          /\ \A st \in Range(ObjectKeys(baseEnv)) \ {inv[p].args.stage} :
               GetProp(pushedEnv, st) = GetProp(baseEnv, st)

\* C22: the content update_feature_switch decodes, when read from the
\* repository itself, is the content the file has at the commit obtained in
\* ResolveTip.
C22_ContentOfTipRead ==
  \A p \in Procs :
    (/\ IsUpdate(p) /\ "Decode" \in Range(inv[p].steps)
     /\ ReadFromRepository(p))
    => inv[p].fileContent =
         commits[inv[p].latestCommitId].files[filePath(inv[p].args.featureName)]

IsPrefix(s, t) == Len(s) <= Len(t) /\ s = SubSeq(t, 1, Len(s))

\* The steps of update_feature_switch in order, without and with the
\* fallback retrieval.
StepsPrimary ==
  <<"ResolveTip", "FetchPrimary", "Decode", "ValidateStage", "CompileMutate", "Encode", "Push">>
StepsFallback ==
  <<"ResolveTip", "FetchPrimary", "FetchFallback", "Decode", "ValidateStage",
    "CompileMutate", "Encode", "Push">>

\* C23: the steps an update_feature_switch has executed are an initial part
\* of ResolveTip, FetchContent (primary, then possibly fallback), Decode,
\* ValidateStage, Compile+Mutate, Encode, Push; it has submitted a push only
\* after all the steps before Push, and at most one; an invocation that
\* failed before Push has submitted no push, and an invocation that has
\* ended executes no further step.
C23_StepOrder ==
  /\ [](\A p \in Procs :
          IsUpdate(p) =>
            /\ IsPrefix(inv[p].steps, StepsPrimary) \/ IsPrefix(inv[p].steps, StepsFallback)
            /\ inv[p].pushes # <<>> =>
                 /\ Len(inv[p].pushes) = 1
                 /\ \A st \in Range(StepsPrimary) \ {"Push"} : st \in Range(inv[p].steps)
            /\ (Failed(p) /\ "Push" \notin Range(inv[p].steps)) => inv[p].pushes = <<>>)
  /\ [][\A p \in Procs :
          (IsUpdate(p) /\ Finished(p)) => inv'[p].steps = inv[p].steps]_vars

C23_Witness ==
  \E p, q \in Procs :
    /\ IsUpdate(p) /\ Finished(p) /\ inv[p].result.success
    /\ inv[p].steps = StepsFallback
    /\ IsUpdate(q) /\ Failed(q)
    /\ inv[q].steps = <<"ResolveTip", "FetchPrimary", "Decode">>
    /\ inv[q].pushes = <<>>

IsCreateBranch(p) == inv[p].tool = "create_branch"

\* C24: the step in which create_branch ends with success finds no ref of
\* the new name and sets it, and no other ref, to the commit the source
\* branch had when it was resolved; and create_branch resolves its source to
\* the commit of the ref of that name, and when there is no such ref it ends
\* at that step with the source-branch-not-found error, the refs unchanged.
C24_CreateBranch ==
  [][\A p \in Procs :
       IsCreateBranch(p) =>
         /\ (inv[p].pc = "cb_updateRefs" /\ inv'[p].pc = "done" /\ inv'[p].result.success)
            => /\ refs[inv[p].args.branchName] = NULL_OBJECT_ID
               /\ refs' = [refs EXCEPT ![inv[p].args.branchName] = inv[p].sourceCommit]
         /\ (inv[p].pc = "cb_getRefs" /\ inv'[p].pc = "cb_updateRefs")
            => inv'[p].sourceCommit = refs[inv[p].args.sourceBranch]
         /\ (inv[p].pc = "cb_getRefs" /\ inv'[p].pc # "cb_getRefs"
             /\ refs[inv[p].args.sourceBranch] = NULL_OBJECT_ID)
            => /\ inv'[p].pc = "done" /\ ~inv'[p].result.success
               /\ inv'[p].result.error.msg \in {"Source branch not found", "RemoteUnavailable"}
               /\ refs' = refs]_vars

\* The branch name a tool resolves with getRefs, and the error it has for a
\* name without a ref.
ResolvedName(p) ==
  IF inv[p].tool = "create_file" THEN inv[p].args.branchName ELSE inv[p].args.sourceBranch
NotFoundErrors == {"Source branch not found", "Branch not found"}

\* C25: the step in which create_branch, create_file or
\* create_feature_switch resolves a branch name takes the commit of the ref
\* of exactly that name; when there is no ref of exactly that name the step
\* ends the invocation with the branch-not-found error, or with the error
\* of the call.
C25_ExactRef ==
  [][\A p \in Procs :
       (/\ inv[p].pc \in {"cb_getRefs", "cf_getRefs", "fs_getRefs"}
        /\ inv'[p].pc # inv[p].pc)
       => IF refs[ResolvedName(p)] = NULL_OBJECT_ID
          THEN /\ inv'[p].pc = "done" /\ ~inv'[p].result.success
               /\ inv'[p].result.error.msg \in NotFoundErrors \cup {"RemoteUnavailable"}
          ELSE inv'[p].pc # "done" =>
                 /\ inv[p].tool = "create_file"
                      => inv'[p].branchCommit = refs[ResolvedName(p)]
                 /\ inv[p].tool # "create_file"
                      => inv'[p].sourceCommit = refs[ResolvedName(p)]]_vars

\* C26: the value a push of update_feature_switch has at the requested
\* stage is an object with the one member Enabled, a boolean, or with the one
\* member Requires, a list of one or two requirements, each with a non-empty
\* list of Values.
C26_StageShape ==
  \A p \in Procs :
    (IsUpdate(p) /\ inv[p].pushes # <<>>) =>
      LET config == GetProp(GetProp(DocOf(inv[p].pushes[1].content), "Environments"),
                            inv[p].args.stage)
          requires == GetProp(config, "Requires")
          Values(i) == GetProp(GetProp(requires.e[i], "Parameters"), "Values")
      IN  \/ /\ ObjectKeys(config) = <<"Enabled">>
             /\ GetProp(config, "Enabled").t = "bool"
          \/ /\ ObjectKeys(config) = <<"Requires">>
             /\ requires.t = "arr"
             /\ Len(requires.e) \in {1, 2}
             /\ \A i \in 1..Len(requires.e) :
                  Values(i).t = "arr" /\ Len(Values(i).e) >= 1

C26_Witness ==
  \E p, q \in Procs :
    /\ IsUpdate(p) /\ inv[p].pushes # <<>>
    /\ hasRequirements(inv[p].args.tenantIds, inv[p].args.rolloutName)
    /\ Len(inv[p].args.tenantIds) = 2
    /\ IsUpdate(q) /\ inv[q].pushes # <<>>
    /\ inv[q].args.rolloutName = <<"daily">> /\ inv[q].args.tenantIds = <<>>
    /\ inv[p].args.stage # inv[q].args.stage

\* C27: an update_feature_switch that takes the fallback retrieval requests
\* the organization the server was started for, and the content the
\* fallback obtains is the content the file has on the branch the push
\* targets.
C27_FallbackSameFile ==
  [][\A p \in Procs :
       (inv[p].pc = "uf_fallback" /\ inv'[p].pc # "uf_fallback") =>
         /\ FallbackOrg = orgName
         /\ inv'[p].fileContent.kind # "undefined" =>
              inv'[p].fileContent =
                ItemAtBranch(inv[p].args.branchName, filePath(inv[p].args.featureName))]_vars

\* C28: when every remote call of an update_feature_switch returns or
\* fails (the content stream included: it ends or reports an error), the
\* invocation eventually ends, and once it has ended its outcome never
\* changes.
C28_Terminates ==
  /\ \A p \in Procs : (IsUpdate(p) /\ ~Finished(p)) ~> Finished(p)
  /\ [][\A p \in Procs :
          (IsUpdate(p) /\ Finished(p)) => inv'[p].result = inv[p].result]_vars

\* An update that ended after its content stream was read to the end, with
\* another writer's commit on the branch.
C28_Witness ==
  /\ IsUpdate("p1") /\ Finished("p1")
  /\ inv["p1"].steps = StepsPrimary
  /\ inv["p1"].fileContent.kind # "undefined"
  /\ \E b \in BranchNames : refs[b] # NULL_OBJECT_ID /\ commits[refs[b]].by \in ExternalWriters

\* C29: for every feature name, when no branch name is given, the branch
\* name the create_feature_switch prompt tells the agent to pass is the one
\* the create_feature_switch tool uses by default, and is the branch name
\* the update_feature_switch prompt emits.
C29_PromptBranch ==
  (/\ inv["p1"].pc = "prompted" /\ inv["p2"].pc = "prompted"
   /\ inv["p1"].args.branchName = <<>>) =>
    /\ inv["p1"].told.branchName = finalBranchName(<<>>, inv["p1"].args.featureName)
    /\ inv["p1"].told.branchName = inv["p2"].told.branchName

IsStatusUpdate(p) == inv[p].tool = "update_pull_request_status"

\* C30: an update_pull_request_status that has got its Git client sends
\* one update of the pull request named, with status Active when the caller
\* passed 'active' and Abandoned when the caller passed 'abandoned'.
C30_StatusSent ==
  \A p \in Procs :
    (IsStatusUpdate(p) /\ Finished(p) /\ inv[p].steps # <<>>) =>
      inv[p].prUpdates = << [pullRequestId |-> inv[p].args.pullRequestId,
                             status |-> PullRequestStatus[inv[p].args.status]] >>

====
